---- MODULE Spec2Model ----
(***************************************************************************)
(* clash-speedtest: the per-proxy concurrent transfer test                 *)
(* (TestProxyConcurrent / TestProxy) and the geolocation resolver          *)
(* (queryIPLocation / checkCountry).                                       *)
(*                                                                         *)
(* Durations are in milliseconds.  A bandwidth (a float64 in the source)   *)
(* is kept as the exact fraction  num bytes / den milliseconds.            *)
(* Strings are sequences of characters.                                    *)
(***************************************************************************)
EXTENDS Integers, Sequences, FiniteSets, TLC

\* ------------------------------------------------------------------ bounds
MaxConcurrent == 3
MaxDownloadSize == 3
MaxFlagLen == 2

\* --------------------------------------------------------------- constants
EpsilonInverse == 1000000000
MsPerSecond == 1000
StatusOK == 200
StatusSlack == 100

\* ------------------------------------------------------------ input ranges
ConcurrentValues == -1 .. MaxConcurrent
DownloadSizes == (-1 .. MaxDownloadSize) \cup {1000000}
FlagChars == {"a", ",", "\t"}
RECURSIVE StringsUpTo(_)
StringsUpTo(n) ==
  IF n = 0 THEN {<<>>}
  ELSE LET shorter == StringsUpTo(n - 1)
       IN  shorter \cup {Append(s, c) : s \in {t \in shorter : Len(t) = n - 1}, c \in FlagChars}
IpTokenLists == StringsUpTo(MaxFlagLen)
TTFBValues == {1, 100}
DownloadTimes == {100, 1000}
WrittenValues == {0, 1, 250000}
TransferStatuses == {101, 200, 300, 301, 404}

Workers == 1 .. MaxConcurrent

VARIABLES
  downloadSizeConfig, concurrent, ipTokenList,
  pc, ipTokenArray,
  concurrentCount, chunkSize, totalTTFB, downloaded, wg, i,
  wpc, requested, written, ttfb,
  downloadTime, result,
  apiURLs, idx, requests, lastResp, geoCalls, geoRet,
  proxies, name, results,
  speedResult, extendedResult,
  httpOutcome, ccIn, ccOut, candidateResp,
  wbody, geoOpen, geoDeferred

cfgVars == <<downloadSizeConfig, concurrent, ipTokenList>>
mainVars == <<pc, ipTokenArray, concurrentCount, chunkSize, i, downloadTime, result>>
accVars == <<totalTTFB, downloaded, wg>>
workerVars == <<wpc, requested, written, ttfb>>
geoVars == <<apiURLs, idx, requests, lastResp, geoCalls, geoRet>>
\* The state of the callers and of the single-function runs, which
\* TestProxyConcurrent and queryIPLocation leave alone.
orchVars == <<proxies, name, results>>
callbackVars == <<speedResult, extendedResult>>
probeVars == <<httpOutcome, ccIn, ccOut, candidateResp>>
hostVars == <<orchVars, callbackVars, probeVars>>
\* The response bodies: each worker's, and those queryIPLocation holds open
\* with the deferred closes it has registered.
bodyVars == <<wbody, geoOpen, geoDeferred>>
vars == <<cfgVars, mainVars, accVars, workerVars, geoVars, hostVars, bodyVars>>

None == "none"

\* ------------------------------------------------------------ Go helpers
\* Go's integer division truncates toward zero.
GoDiv(a, b) ==
  IF (a >= 0 /\ b > 0) \/ (a <= 0 /\ b < 0)
  THEN (IF a >= 0 THEN a ELSE -a) \div (IF b >= 0 THEN b ELSE -b)
  ELSE -((IF a >= 0 THEN a ELSE -a) \div (IF b >= 0 THEN b ELSE -b))

\* strings.Split(s, ","): the substrings between the separators, in order;
\* the empty string gives one empty substring.
RECURSIVE Split(_)
Split(s) ==
  IF \A k \in 1 .. Len(s) : s[k] # ","
  THEN <<s>>
  ELSE LET k == CHOOSE k \in 1 .. Len(s) :
                  s[k] = "," /\ \A j \in 1 .. k - 1 : s[j] # ","
       IN  <<SubSeq(s, 1, k - 1)>> \o Split(SubSeq(s, k + 1, Len(s)))
HasSuffixComma(s) == Len(s) > 0 /\ s[Len(s)] = ","

ParseTokens(s) ==
  IF HasSuffixComma(s) THEN Append(Split(s), <<>>) ELSE Split(s)


\* ------------------------------------------------------- TestProxy (one chunk)
\* What the HTTP GET of one chunk can come to: a request error, or a response
\* with a status, a time to first byte, a number of body bytes read and the
\* time the body read took; the body read may end in an error (copyErr),
\* which io.Copy reports and TestProxy drops.
TransferOutcomes ==
  [err : {TRUE}, status : {0}, ttfb : {0}, written : {0}, copyTime : {1},
   copyErr : {FALSE}]
  \cup [err : {FALSE}, status : TransferStatuses, ttfb : TTFBValues,
        written : WrittenValues, copyTime : {1, 900}, copyErr : BOOLEAN]

FailedChunk == [Bandwidth |-> [num |-> -1, den |-> 1], TTFB |-> -1, w |-> 0]

\* resp.Body when TestProxy returns: there is no response after an error of
\* client.Get; otherwise defer resp.Body.Close() is registered before the
\* status check and runs at each of the three returns that follow.
TestProxyBody(o) ==
  IF o.err THEN None
  ELSE IF o.status - StatusOK > StatusSlack THEN "closed"
  ELSE IF o.written = 0 THEN "closed"
  ELSE "closed"

TestProxyCopyError(o) ==
  IF o.err THEN FailedChunk
  ELSE IF o.status - StatusOK > StatusSlack THEN FailedChunk
  ELSE IF o.written = 0 \/ o.copyErr THEN FailedChunk
  ELSE [Bandwidth |-> [num |-> o.written, den |-> o.copyTime],
        TTFB |-> o.ttfb, w |-> o.written]

TestProxyStatusAtLeast(o) ==
  IF o.err THEN FailedChunk
  ELSE IF o.status - StatusOK >= StatusSlack THEN FailedChunk
  ELSE IF o.written = 0 THEN FailedChunk
  ELSE [Bandwidth |-> [num |-> o.written, den |-> o.copyTime],
        TTFB |-> o.ttfb, w |-> o.written]

TestProxy(o) ==
  IF o.err THEN FailedChunk
  ELSE IF o.status - StatusOK > StatusSlack THEN FailedChunk
  ELSE IF o.written = 0 THEN FailedChunk
  ELSE [Bandwidth |-> [num |-> o.written, den |-> o.copyTime],
        TTFB |-> o.ttfb, w |-> o.written]

\* ------------------------------------------------- TestProxyConcurrent: fan-out
NoResult == [Name |-> 0, Bandwidth |-> [num |-> 0, den |-> 1], TTFB |-> 0,
             CountryCode |-> None, IP |-> None]
NoResp == [err |-> TRUE, status |-> 0,
           body |-> [json |-> FALSE, obj |-> [ip |-> None, country_code |-> None, country |-> None]]]
NoRet == [country |-> None, ip |-> None, err |-> None]

\* if concurrentCount <= 0 { concurrentCount = 1 }
ClampConcurrent(c) == IF c <= 0 THEN 1 ELSE c

ChunkSizeCeil(size, count) == GoDiv(size + count - 1, count)

\* chunkSize := downloadSize / concurrentCount
ChunkSize(size, count) == GoDiv(size, count)

Enter ==
  /\ pc = "entry"
  /\ concurrentCount' = ClampConcurrent(concurrent)
  /\ chunkSize' = ChunkSize(downloadSizeConfig, ClampConcurrent(concurrent))
  /\ totalTTFB' = 0
  /\ downloaded' = 0
  /\ wg' = 0
  /\ i' = 0
  /\ pc' = "loop"
  /\ UNCHANGED <<bodyVars, hostVars, cfgVars, ipTokenArray, downloadTime, result, workerVars, geoVars>>

\* wg.Add(1); go func(i) {...}(i)
Spawn ==
  /\ pc = "loop"
  /\ i < concurrentCount
  /\ wg' = wg + 1
  /\ wpc' = [wpc EXCEPT ![i + 1] = "run"]
  /\ i' = i + 1
  /\ UNCHANGED <<bodyVars, hostVars, cfgVars, pc, ipTokenArray, concurrentCount, chunkSize,
                 downloadTime, result, totalTTFB, downloaded,
                 requested, written, ttfb, geoVars>>

\* result, w := TestProxy(name, proxy, chunkSize, timeout)
CallTestProxyWith(n, o) ==
  /\ wpc[n] = "run"
  /\ LET r == TestProxy(o)
     IN  /\ written' = [written EXCEPT ![n] = r.w]
         /\ ttfb' = [ttfb EXCEPT ![n] = r.TTFB]
  /\ wbody' = [wbody EXCEPT ![n] = TestProxyBody(o)]
  /\ requested' = [requested EXCEPT ![n] = Append(@, chunkSize)]
  /\ wpc' = [wpc EXCEPT ![n] = "ret"]
  /\ UNCHANGED <<geoOpen, geoDeferred, hostVars, cfgVars, mainVars, accVars, geoVars>>

\* The transfer ends in any of the outcomes.
CallTestProxy(n) ==
  /\ wpc[n] = "run"
  /\ \E o \in TransferOutcomes : CallTestProxyWith(n, o)

AddDownloadedStore(n) ==
  /\ wpc[n] = "ret"
  /\ written[n] # 0
  /\ downloaded' = written[n]
  /\ wpc' = [wpc EXCEPT ![n] = "added"]
  /\ UNCHANGED <<bodyVars, hostVars, cfgVars, mainVars, totalTTFB, wg, requested, written, ttfb, geoVars>>

\* if w != 0 { atomic.AddInt64(&downloaded, w)
AddDownloaded(n) ==
  /\ wpc[n] = "ret"
  /\ written[n] # 0
  /\ downloaded' = downloaded + written[n]
  /\ wpc' = [wpc EXCEPT ![n] = "added"]
  /\ UNCHANGED <<bodyVars, hostVars, cfgVars, mainVars, totalTTFB, wg, requested, written, ttfb, geoVars>>

AddTTFBStore(n) ==
  /\ wpc[n] = "added"
  /\ totalTTFB' = ttfb[n]
  /\ wpc' = [wpc EXCEPT ![n] = "summed"]
  /\ UNCHANGED <<bodyVars, hostVars, cfgVars, mainVars, downloaded, wg, requested, written, ttfb, geoVars>>

\*             atomic.AddInt64(&totalTTFB, int64(result.TTFB)) }
AddTTFB(n) ==
  /\ wpc[n] = "added"
  /\ totalTTFB' = totalTTFB + ttfb[n]
  /\ wpc' = [wpc EXCEPT ![n] = "summed"]
  /\ UNCHANGED <<bodyVars, hostVars, cfgVars, mainVars, downloaded, wg, requested, written, ttfb, geoVars>>

WgDoneAfterAdd(n) ==
  /\ wpc[n] = "summed"
  /\ wg' = wg - 1
  /\ wpc' = [wpc EXCEPT ![n] = "done"]
  /\ UNCHANGED <<bodyVars, hostVars, cfgVars, mainVars, totalTTFB, downloaded, requested, written, ttfb, geoVars>>

WgDoneUnguarded(n) ==
  /\ \/ wpc[n] = "ret" /\ written[n] = 0
     \/ wpc[n] = "summed"
  /\ wg' = wg - 1
  /\ totalTTFB' = IF wpc[n] = "ret" THEN totalTTFB + ttfb[n] ELSE totalTTFB
  /\ wpc' = [wpc EXCEPT ![n] = "done"]
  /\ UNCHANGED <<bodyVars, hostVars, cfgVars, mainVars, downloaded, requested, written, ttfb, geoVars>>

\* wg.Done()
WgDone(n) ==
  /\ \/ wpc[n] = "ret" /\ written[n] = 0
     \/ wpc[n] = "summed"
  /\ wg' = wg - 1
  /\ wpc' = [wpc EXCEPT ![n] = "done"]
  /\ UNCHANGED <<bodyVars, hostVars, cfgVars, mainVars, totalTTFB, downloaded, requested, written, ttfb, geoVars>>

\* --------------------------------------------- TestProxyConcurrent: aggregation
Launched == {n \in Workers : wpc[n] # None}

GtEpsilonInclusive(b) == b.num >= (b.den \div MsPerSecond) \div EpsilonInverse

GtEpsilonUnscaled(b) == b.num > b.den

\* float64 comparison  b > 1e-9  for b = num bytes / (den ms / 1000)
GtEpsilon(b) == b.num > (b.den \div MsPerSecond) \div EpsilonInverse

\* Bandwidth: float64(downloaded) / downloadTime.Seconds()
Bandwidth(bytes, d) == [num |-> bytes, den |-> d]

MeanTTFBSentinel(total, count) == IF total = 0 THEN -1 ELSE GoDiv(total, count)

\* TTFB: time.Duration(totalTTFB / int64(concurrentCount))
MeanTTFB(total, count) == GoDiv(total, count)

JoinNoWait ==
  /\ pc = "loop"
  /\ i >= concurrentCount
  /\ \E d \in DownloadTimes :
       /\ \A n \in Launched : ttfb[n] <= d
       /\ downloadTime' = d
       /\ result' = [Name |-> name,
                     Bandwidth |-> Bandwidth(downloaded, d),
                     TTFB |-> MeanTTFB(totalTTFB, concurrentCount),
                     CountryCode |-> "NIL", IP |-> "NIL"]
       /\ pc' = IF GtEpsilon(Bandwidth(downloaded, d)) THEN "query" ELSE "done"
  /\ UNCHANGED <<bodyVars, hostVars, cfgVars, ipTokenArray, concurrentCount, chunkSize, i,
                 accVars, workerVars, geoVars>>

\* wg.Wait(); downloadTime := time.Since(start); result := &Result{...}
Join ==
  /\ pc = "loop"
  /\ i >= concurrentCount
  /\ wg = 0
  /\ \E d \in DownloadTimes :
       /\ \A n \in Launched : ttfb[n] <= d
       /\ downloadTime' = d
       /\ result' = [Name |-> name,
                     Bandwidth |-> Bandwidth(downloaded, d),
                     TTFB |-> MeanTTFB(totalTTFB, concurrentCount),
                     CountryCode |-> "NIL", IP |-> "NIL"]
       /\ pc' = IF GtEpsilon(Bandwidth(downloaded, d)) THEN "query" ELSE "done"
  /\ UNCHANGED <<bodyVars, hostVars, cfgVars, ipTokenArray, concurrentCount, chunkSize, i,
                 accVars, workerVars, geoVars>>

\* ------------------------------------------------------------ checkCountry
\* A field of the decoded JSON object: absent, present with a value that is
\* not a string, or a string.
Absent == [kind |-> "absent", val |-> ""]
NotString == [kind |-> "other", val |-> ""]
Str(v) == [kind |-> "string", val |-> v]
Obj(ip, cc, c) == [ip |-> ip, country_code |-> cc, country |-> c]

\* v, ok := field.(string); ok && v != ""
NonEmptyString(f) == f.kind = "string" /\ f.val # ""

checkCountryPrefersCountry(obj) ==
  IF NonEmptyString(obj.ip)
  THEN IF NonEmptyString(obj.country)
       THEN [country |-> obj.country.val, ip |-> obj.ip.val, ok |-> TRUE]
       ELSE IF NonEmptyString(obj.country_code)
       THEN [country |-> obj.country_code.val, ip |-> obj.ip.val, ok |-> TRUE]
       ELSE [country |-> "", ip |-> obj.ip.val, ok |-> TRUE]
  ELSE [country |-> "", ip |-> "", ok |-> FALSE]

checkCountryAnyString(obj) ==
  IF obj.ip.kind = "string"
  THEN IF NonEmptyString(obj.country_code)
       THEN [country |-> obj.country_code.val, ip |-> obj.ip.val, ok |-> TRUE]
       ELSE IF NonEmptyString(obj.country)
       THEN [country |-> obj.country.val, ip |-> obj.ip.val, ok |-> TRUE]
       ELSE [country |-> "", ip |-> obj.ip.val, ok |-> TRUE]
  ELSE [country |-> "", ip |-> "", ok |-> FALSE]


checkCountry(obj) ==
  IF NonEmptyString(obj.ip)
  THEN IF NonEmptyString(obj.country_code)
       THEN [country |-> obj.country_code.val, ip |-> obj.ip.val, ok |-> TRUE]
       ELSE IF NonEmptyString(obj.country)
       THEN [country |-> obj.country.val, ip |-> obj.ip.val, ok |-> TRUE]
       ELSE [country |-> "", ip |-> obj.ip.val, ok |-> TRUE]
  ELSE [country |-> "", ip |-> "", ok |-> FALSE]

\* ---------------------------------------------------------- queryIPLocation
AllFailedError == "all APIs failed or returned invalid data"
IpinfoPrefix == "http://ipinfo.io/json?token="
FallbackURL == <<"https://api.ip.sb/geoip">>
ControlChars == {"\t"}

\* fmt.Sprintf("http://ipinfo.io/json?token=%s", token)
TokenURL(token) == <<IpinfoPrefix>> \o token

\* http.NewRequest fails on a URL that holds a control character.
NewRequestOK(url) == \A k \in 1 .. Len(url) : url[k] \notin ControlChars

Shuffles(n) ==
  {p \in [1 .. n -> 1 .. n] : \A a, b \in 1 .. n : p[a] = p[b] => a = b}

\* What one candidate request can come to: a transport error, or a response
\* with a status and a body that is either not JSON or a JSON object.
NotJSON == [json |-> FALSE, obj |-> Obj(Absent, Absent, Absent)]
JSON(obj) == [json |-> TRUE, obj |-> obj]
GeoObjects ==
  { Obj(Absent, Absent, Absent),
    Obj(Absent, Str("US"), Str("United States")),
    Obj(Str(""), Str("US"), Absent),
    Obj(NotString, Absent, Str("DE")),
    Obj(Str("1.1.1.1"), Str("US"), Str("United States")),
    Obj(Str("2.2.2.2"), Str(""), Str("DE")),
    Obj(Str("3.3.3.3"), NotString, Absent) }
GeoBodies == {NotJSON} \cup {JSON(o) : o \in GeoObjects}
GeoResponses ==
  {[err |-> TRUE, status |-> 0, body |-> NotJSON]}
  \cup [err : {FALSE}, status : {200}, body : GeoBodies]
  \cup [err : {FALSE}, status : {204, 404},
        body : {NotJSON, JSON(Obj(Str("1.1.1.1"), Str("US"), Str("United States")))}]

\* resp, err := client.Do(req): a response, and so a body to close, unless
\* err != nil.
Obtained(r) == IF r.err THEN 0 ELSE 1

DeferredAfterStatusCheck(r) == IF r.err \/ r.status # StatusOK THEN 0 ELSE 1

\* defer resp.Body.Close(): registered right after the error check, before
\* the status check; the deferred calls run when queryIPLocation returns.
Deferred(r) == IF r.err THEN 0 ELSE 1

TryResponseAnyStatus(r) ==
  IF r.err THEN [country |-> "", ip |-> "", ok |-> FALSE]
  ELSE IF ~r.body.json THEN [country |-> "", ip |-> "", ok |-> FALSE]
  ELSE checkCountry(r.body.obj)

\* The outcome of one pass of the loop body for a response that was obtained:
\* the values to return, or ok = FALSE to go on with the next candidate.
TryResponse(r) ==
  IF r.err THEN [country |-> "", ip |-> "", ok |-> FALSE]
  ELSE IF r.status # StatusOK THEN [country |-> "", ip |-> "", ok |-> FALSE]
  ELSE IF ~r.body.json THEN [country |-> "", ip |-> "", ok |-> FALSE]
  ELSE checkCountry(r.body.obj)

BuildCandidatesShuffleAll ==
  /\ pc = "query"
  /\ \E p \in Shuffles(Len(ipTokenArray) + 1) :
       LET urls == [k \in 1 .. Len(ipTokenArray) |-> TokenURL(ipTokenArray[k])]
                     \o <<FallbackURL>>
       IN  apiURLs' = [k \in 1 .. Len(urls) |-> urls[p[k]]]
  /\ idx' = 1
  /\ requests' = <<>>
  /\ geoCalls' = geoCalls + 1
  /\ pc' = "candidates"
  /\ UNCHANGED <<bodyVars, hostVars, cfgVars, ipTokenArray, concurrentCount, chunkSize, i,
                 downloadTime, result, accVars, workerVars, lastResp, geoRet>>

\* apiURLs := one URL per token; rand.Shuffle; append the fallback
BuildCandidates ==
  /\ pc = "query"
  /\ \E p \in Shuffles(Len(ipTokenArray)) :
       apiURLs' = [k \in 1 .. Len(ipTokenArray) |-> TokenURL(ipTokenArray[p[k]])]
                    \o <<FallbackURL>>
  /\ idx' = 1
  /\ requests' = <<>>
  /\ geoCalls' = geoCalls + 1
  /\ pc' = "candidates"
  /\ UNCHANGED <<bodyVars, hostVars, cfgVars, ipTokenArray, concurrentCount, chunkSize, i,
                 downloadTime, result, accVars, workerVars, lastResp, geoRet>>

\* http.NewRequest failed: continue
SkipCandidate ==
  /\ pc = "candidates"
  /\ idx <= Len(apiURLs)
  /\ ~NewRequestOK(apiURLs[idx])
  /\ idx' = idx + 1
  /\ UNCHANGED <<bodyVars, hostVars, cfgVars, mainVars, accVars, workerVars,
                 apiURLs, requests, lastResp, geoCalls, geoRet>>

TryCandidateNoStop ==
  /\ pc = "candidates"
  /\ idx <= Len(apiURLs)
  /\ NewRequestOK(apiURLs[idx])
  /\ \E r \in GeoResponses :
       LET t == TryResponse(r)
       IN  /\ lastResp' = r
           /\ requests' = Append(requests, [pos |-> idx, url |-> apiURLs[idx]])
           /\ IF t.ok
              THEN /\ geoRet' = [country |-> t.country, ip |-> t.ip, err |-> "nil"]
                   /\ pc' = IF idx = Len(apiURLs) THEN "queried" ELSE pc
                   /\ idx' = IF idx = Len(apiURLs) THEN idx ELSE idx + 1
                   /\ geoOpen' = IF idx = Len(apiURLs)
                                 THEN geoOpen + Obtained(r) - (geoDeferred + Deferred(r))
                                 ELSE geoOpen + Obtained(r)
                   /\ geoDeferred' = IF idx = Len(apiURLs) THEN 0
                                     ELSE geoDeferred + Deferred(r)
              ELSE /\ idx' = idx + 1
                   /\ geoOpen' = geoOpen + Obtained(r)
                   /\ geoDeferred' = geoDeferred + Deferred(r)
                   /\ UNCHANGED <<pc, geoRet>>
  /\ UNCHANGED <<wbody, hostVars, cfgVars, ipTokenArray, concurrentCount, chunkSize, i,
                 downloadTime, result, accVars, workerVars, apiURLs, geoCalls>>

TryCandidateWithBreak(r) ==
  /\ pc = "candidates"
  /\ idx <= Len(apiURLs)
  /\ NewRequestOK(apiURLs[idx])
  /\ LET t == TryResponse(r)
     IN  /\ lastResp' = r
         /\ requests' = Append(requests, [pos |-> idx, url |-> apiURLs[idx]])
         /\ IF t.ok
            THEN /\ geoRet' = [country |-> t.country, ip |-> t.ip, err |-> "nil"]
                 /\ pc' = "queried"
                 /\ idx' = idx
                 /\ geoOpen' = geoOpen + Obtained(r) - (geoDeferred + Deferred(r))
                 /\ geoDeferred' = 0
            ELSE /\ idx' = Len(apiURLs) + 1
                 /\ geoOpen' = geoOpen + Obtained(r)
                 /\ geoDeferred' = geoDeferred + Deferred(r)
                 /\ UNCHANGED <<pc, geoRet>>
  /\ UNCHANGED <<wbody, hostVars, cfgVars, ipTokenArray, concurrentCount, chunkSize, i,
                 downloadTime, result, accVars, workerVars, apiURLs, geoCalls>>

\* client.Do(req) answered by r, and the checks on the response
TryCandidateWith(r) ==
  /\ pc = "candidates"
  /\ idx <= Len(apiURLs)
  /\ NewRequestOK(apiURLs[idx])
  /\ LET t == TryResponse(r)
     IN  /\ lastResp' = r
         /\ requests' = Append(requests, [pos |-> idx, url |-> apiURLs[idx]])
         /\ IF t.ok
            THEN /\ geoRet' = [country |-> t.country, ip |-> t.ip, err |-> "nil"]
                 /\ pc' = "queried"
                 /\ idx' = idx
                 /\ geoOpen' = geoOpen + Obtained(r) - (geoDeferred + Deferred(r))
                 /\ geoDeferred' = 0
            ELSE /\ idx' = idx + 1
                 /\ geoOpen' = geoOpen + Obtained(r)
                 /\ geoDeferred' = geoDeferred + Deferred(r)
                 /\ UNCHANGED <<pc, geoRet>>
  /\ UNCHANGED <<wbody, hostVars, cfgVars, ipTokenArray, concurrentCount, chunkSize, i,
                 downloadTime, result, accVars, workerVars, apiURLs, geoCalls>>

\* The request is answered in any of the ways.
TryCandidate ==
  /\ pc = "candidates"
  /\ \E r \in GeoResponses : TryCandidateWith(r)

\* return "", "", errors.New("all APIs failed or returned invalid data")
Exhausted ==
  /\ pc = "candidates"
  /\ idx > Len(apiURLs)
  /\ geoRet' = [country |-> "", ip |-> "", err |-> AllFailedError]
  /\ geoOpen' = geoOpen - geoDeferred
  /\ geoDeferred' = 0
  /\ pc' = "queried"
  /\ UNCHANGED <<wbody, hostVars, cfgVars, ipTokenArray, concurrentCount, chunkSize, i,
                 downloadTime, result, accVars, workerVars,
                 apiURLs, idx, requests, lastResp, geoCalls>>

WithLocationUnchecked(res, ret) ==
  [res EXCEPT !.CountryCode = IF ret.country # "" THEN ret.country ELSE @,
              !.IP = ret.ip]

\* if err == nil { if country_code != "" {...}; result.IP = ip }; return result
WithLocation(res, ret) ==
  IF ret.err # "nil" THEN res
  ELSE [res EXCEPT !.CountryCode = IF ret.country # "" THEN ret.country ELSE @,
                   !.IP = ret.ip]

Return ==
  /\ pc = "queried"
  /\ result' = WithLocation(result, geoRet)
  /\ pc' = "done"
  /\ UNCHANGED <<bodyVars, hostVars, cfgVars, ipTokenArray, concurrentCount, chunkSize, i,
                 downloadTime, accVars, workerVars, geoVars>>

\* ------------------------------------------------------------ specification
\* The inputs: the download size and the concurrency are varied with the
\* default token list, the token list is varied with one worker.
DefaultTokenList == <<>>
Inputs ==
  {c \in [size : DownloadSizes, concurrent : ConcurrentValues, tokens : IpTokenLists] :
     \/ c.tokens = DefaultTokenList
     \/ c.size = 1 /\ c.concurrent = 1}

\* The locals of a call of TestProxyConcurrent before its first statement.
FreshCall ==
  /\ concurrentCount = 0
  /\ chunkSize = 0
  /\ totalTTFB = 0
  /\ downloaded = 0
  /\ wg = 0
  /\ i = 0
  /\ wpc = [n \in Workers |-> None]
  /\ requested = [n \in Workers |-> <<>>]
  /\ written = [n \in Workers |-> 0]
  /\ ttfb = [n \in Workers |-> 0]
  /\ downloadTime = 0
  /\ result = NoResult
  /\ apiURLs = <<>>
  /\ idx = 0
  /\ requests = <<>>
  /\ lastResp = NoResp
  /\ geoCalls = 0
  /\ geoRet = NoRet
  /\ wbody = [n \in Workers |-> None]
  /\ geoOpen = 0
  /\ geoDeferred = 0

\* The callers' state when only one function is run.
NoSpeedResult == [ProxyName |-> 0, DownloadSpeed |-> [num |-> 0, den |-> 1]]
NoExtendedResult == [ProxyName |-> 0, DownloadSpeed |-> [num |-> 0, den |-> 1],
                     CountryCode |-> None, IP |-> None]
NoOutcome == [err |-> TRUE, status |-> 0, ttfb |-> 0, written |-> 0,
              copyTime |-> 1, copyErr |-> FALSE]
NoObject == [ip |-> [kind |-> None, val |-> ""],
             country_code |-> [kind |-> None, val |-> ""],
             country |-> [kind |-> None, val |-> ""]]
NoChecked == [country |-> None, ip |-> None, ok |-> FALSE]
NoCallback == speedResult = NoSpeedResult /\ extendedResult = NoExtendedResult
NoResponses == <<>>
NoProbe ==
  /\ httpOutcome = NoOutcome
  /\ ccIn = NoObject
  /\ ccOut = NoChecked
  /\ candidateResp = NoResponses

\* main has parsed the flags and calls TestProxyConcurrent for one proxy.
Init ==
  /\ \E c \in Inputs :
       /\ downloadSizeConfig = c.size
       /\ concurrent = c.concurrent
       /\ ipTokenList = c.tokens
       /\ ipTokenArray = ParseTokens(c.tokens)
  /\ pc = "entry"
  /\ FreshCall
  /\ proxies = <<"Vmess">>
  /\ name = 1
  /\ results = <<>>
  /\ NoCallback
  /\ NoProbe

Next ==
  \/ Enter
  \/ Spawn
  \/ \E n \in Workers : CallTestProxy(n)
  \/ \E n \in Workers : AddDownloaded(n)
  \/ \E n \in Workers : AddTTFB(n)
  \/ \E n \in Workers : WgDone(n)
  \/ Join
  \/ BuildCandidates
  \/ SkipCandidate
  \/ TryCandidate
  \/ Exhausted
  \/ Return

Spec == Init /\ [][Next]_vars

\* ------------------------------------------- checkCountry run on its own
\* Every decoded object over these field values.
IpFields == {Absent, NotString, Str(""), Str("1.1.1.1"), Str("2.2.2.2")}
CodeFields == {Absent, NotString, Str(""), Str("US"), Str("DE")}
CountryFields == {Absent, NotString, Str(""), Str("United States"), Str("Germany")}
DecodedObjects == {Obj(a, b, c) : a \in IpFields, b \in CodeFields, c \in CountryFields}

IdleConfig ==
  /\ downloadSizeConfig = 1
  /\ concurrent = 1
  /\ ipTokenList = <<>>
  /\ ipTokenArray = ParseTokens(<<>>)
IdleMain == proxies = <<"Vmess">> /\ name = 1 /\ results = <<>>

InitCheckCountry ==
  /\ IdleConfig
  /\ FreshCall
  /\ IdleMain
  /\ NoCallback
  /\ httpOutcome = NoOutcome
  /\ ccIn \in DecodedObjects
  /\ ccOut = NoChecked
  /\ candidateResp = NoResponses
  /\ pc = "checkCountry"

\* country_code, ip, ok := checkCountry(result, ip_url)
CallCheckCountry ==
  /\ pc = "checkCountry"
  /\ ccOut' = checkCountry(ccIn)
  /\ pc' = "checked"
  /\ UNCHANGED <<bodyVars, cfgVars, ipTokenArray, concurrentCount, chunkSize, i,
                 downloadTime, result, accVars, workerVars, geoVars,
                 orchVars, callbackVars, httpOutcome, ccIn, candidateResp>>

NextCheckCountry == CallCheckCountry

SpecCheckCountry == InitCheckCountry /\ [][NextCheckCountry]_vars

\* ------------------------------------------------- main: the loop over proxies
MaxProxies == 2

\* case C.Shadowsocks, ..., C.Tuic
TestableTypes ==
  {"Shadowsocks", "ShadowsocksR", "Snell", "Socks5", "Http", "Vmess", "Vless",
   "Trojan", "Hysteria", "Hysteria2", "WireGuard", "Tuic"}
\* case C.Direct, ..., C.LoadBalance
SkippedTypes ==
  {"Direct", "Reject", "Relay", "Selector", "Fallback", "URLTest", "LoadBalance"}
\* The types the filtered proxies are drawn from: one of each case and one
\* that neither case lists.
ProxyTypes == {"Vmess", "Selector", "Compatible"}

ProxyLists == UNION {[1 .. n -> ProxyTypes] : n \in 0 .. MaxProxies}
MainTokenLists == {<<>>, <<"\t">>}

InitMain ==
  /\ downloadSizeConfig = 1
  /\ concurrent = 1
  /\ ipTokenList \in MainTokenLists
  /\ ipTokenArray = ParseTokens(ipTokenList)
  /\ proxies \in ProxyLists
  /\ name = 0
  /\ results = <<>>
  /\ pc = "range"
  /\ FreshCall
  /\ NoCallback
  /\ NoProbe

\* for _, name := range filteredProxies { switch proxy.Type() { case testable:
\* result := TestProxyConcurrent(...)
CallTestProxyConcurrent ==
  /\ pc = "range"
  /\ name < Len(proxies)
  /\ proxies[name + 1] \in TestableTypes
  /\ name' = name + 1
  /\ concurrentCount' = 0
  /\ chunkSize' = 0
  /\ totalTTFB' = 0
  /\ downloaded' = 0
  /\ wg' = 0
  /\ i' = 0
  /\ wpc' = [n \in Workers |-> None]
  /\ requested' = [n \in Workers |-> <<>>]
  /\ written' = [n \in Workers |-> 0]
  /\ ttfb' = [n \in Workers |-> 0]
  /\ downloadTime' = 0
  /\ result' = NoResult
  /\ apiURLs' = <<>>
  /\ idx' = 0
  /\ requests' = <<>>
  /\ lastResp' = NoResp
  /\ geoCalls' = 0
  /\ geoRet' = NoRet
  /\ wbody' = [n \in Workers |-> None]
  /\ geoOpen' = 0
  /\ geoDeferred' = 0
  /\ pc' = "entry"
  /\ UNCHANGED <<cfgVars, ipTokenArray, proxies, results, callbackVars, probeVars>>

\* case C.Direct, ...: continue
SkipProxy ==
  /\ pc = "range"
  /\ name < Len(proxies)
  /\ proxies[name + 1] \in SkippedTypes
  /\ name' = name + 1
  /\ UNCHANGED <<bodyVars, cfgVars, mainVars, accVars, workerVars, geoVars,
                 proxies, results, callbackVars, probeVars>>

\* default: log.Fatalln("Unsupported proxy type: %s", proxy.Type())
Fatal ==
  /\ pc = "range"
  /\ name < Len(proxies)
  /\ proxies[name + 1] \notin TestableTypes \cup SkippedTypes
  /\ name' = name + 1
  /\ pc' = "fatal"
  /\ UNCHANGED <<bodyVars, cfgVars, ipTokenArray, concurrentCount, chunkSize, i,
                 downloadTime, result, accVars, workerVars, geoVars,
                 proxies, results, callbackVars, probeVars>>

CollectUsable ==
  /\ pc = "done"
  /\ results' = IF GtEpsilon(result.Bandwidth) THEN Append(results, result) ELSE results
  /\ pc' = "range"
  /\ UNCHANGED <<bodyVars, cfgVars, ipTokenArray, concurrentCount, chunkSize, i,
                 downloadTime, result, accVars, workerVars, geoVars,
                 proxies, name, callbackVars, probeVars>>

\* result.Printf(format); results = append(results, *result)
Collect ==
  /\ pc = "done"
  /\ results' = Append(results, result)
  /\ pc' = "range"
  /\ UNCHANGED <<bodyVars, cfgVars, ipTokenArray, concurrentCount, chunkSize, i,
                 downloadTime, result, accVars, workerVars, geoVars,
                 proxies, name, callbackVars, probeVars>>

\* results[i].Bandwidth > results[j].Bandwidth, on fractions
BandwidthGreater(a, b) == a.num * b.den > b.num * a.den

\* sort.Slice is not stable: any ordering in which no result precedes one of
\* a greater bandwidth.
SortedByBandwidth(rs) ==
  {p \in [1 .. Len(rs) -> 1 .. Len(rs)] :
     /\ \A a, b \in 1 .. Len(rs) : a # b => p[a] # p[b]
     /\ \A a, b \in 1 .. Len(rs) :
          a < b => ~BandwidthGreater(rs[p[b]].Bandwidth, rs[p[a]].Bandwidth)}

\* The loop is over; sortField is "b": sort.Slice(results, ...) and print.
Report ==
  /\ pc = "range"
  /\ name = Len(proxies)
  /\ \E p \in SortedByBandwidth(results) :
       results' = [k \in 1 .. Len(results) |-> results[p[k]]]
  /\ pc' = "reported"
  /\ UNCHANGED <<bodyVars, cfgVars, ipTokenArray, concurrentCount, chunkSize, i,
                 downloadTime, result, accVars, workerVars, geoVars,
                 proxies, name, callbackVars, probeVars>>

NextMain ==
  \/ CallTestProxyConcurrent
  \/ SkipProxy
  \/ Fatal
  \/ Collect
  \/ Report
  \/ Next

SpecMain == InitMain /\ [][NextMain]_vars

\* ------------------------------- main.go: the callback of TestProxies
\* result.DownloadSpeed, as measured by the speedtester package: nothing,
\* one byte per second, 2.5 MB per second.
DownloadSpeeds == {[num |-> 0, den |-> 1], [num |-> 1, den |-> 1000],
                   [num |-> 250000, den |-> 100]}

InitCallback ==
  /\ downloadSizeConfig = 1
  /\ concurrent = 1
  /\ ipTokenList \in MainTokenLists
  /\ ipTokenArray = ParseTokens(ipTokenList)
  /\ IdleMain
  /\ FreshCall
  /\ speedResult \in {[ProxyName |-> 1, DownloadSpeed |-> b] : b \in DownloadSpeeds}
  /\ extendedResult = NoExtendedResult
  /\ NoProbe
  /\ pc = "callback"

\* extendedResult := &ExtendedResult{Result: *result}
\* if result.DownloadSpeed > epsilon { proxy := allProxies[result.ProxyName] ...
\* (the name is a key of allProxies, the map TestProxies was given, so proxy
\* is not nil).
CallbackEnter ==
  /\ pc = "callback"
  /\ extendedResult' = [ProxyName |-> speedResult.ProxyName,
                        DownloadSpeed |-> speedResult.DownloadSpeed,
                        CountryCode |-> "", IP |-> ""]
  /\ pc' = IF GtEpsilon(speedResult.DownloadSpeed) THEN "query" ELSE "append"
  /\ UNCHANGED <<bodyVars, cfgVars, ipTokenArray, concurrentCount, chunkSize, i,
                 downloadTime, result, accVars, workerVars, geoVars,
                 orchVars, speedResult, probeVars>>

\* if err == nil { extendedResult.CountryCode = countryCode; extendedResult.IP = ip }
CallbackReturn ==
  /\ pc = "queried"
  /\ extendedResult' =
       IF geoRet.err = "nil"
       THEN [extendedResult EXCEPT !.CountryCode = geoRet.country, !.IP = geoRet.ip]
       ELSE extendedResult
  /\ pc' = "append"
  /\ UNCHANGED <<bodyVars, cfgVars, ipTokenArray, concurrentCount, chunkSize, i,
                 downloadTime, result, accVars, workerVars, geoVars,
                 orchVars, speedResult, probeVars>>

\* results = append(results, extendedResult)
CallbackAppend ==
  /\ pc = "append"
  /\ results' = Append(results, extendedResult)
  /\ pc' = "appended"
  /\ UNCHANGED <<bodyVars, cfgVars, ipTokenArray, concurrentCount, chunkSize, i,
                 downloadTime, result, accVars, workerVars, geoVars,
                 proxies, name, callbackVars, probeVars>>

NextCallback ==
  \/ CallbackEnter
  \/ BuildCandidates
  \/ SkipCandidate
  \/ TryCandidate
  \/ Exhausted
  \/ CallbackReturn
  \/ CallbackAppend

SpecCallback == InitCallback /\ [][NextCallback]_vars

\* ---------------- TestProxyConcurrent with the first worker's transfer recorded
WorkerConcurrency == {1, 2}

InitWorker ==
  /\ downloadSizeConfig = 1
  /\ concurrent \in WorkerConcurrency
  /\ ipTokenList = <<>>
  /\ ipTokenArray = ParseTokens(ipTokenList)
  /\ IdleMain
  /\ FreshCall
  /\ NoCallback
  /\ httpOutcome \in TransferOutcomes
  /\ ccIn = NoObject
  /\ ccOut = NoChecked
  /\ candidateResp = NoResponses
  /\ pc = "entry"

\* The first worker's transfer ends in the recorded outcome.
CallTestProxyRecorded ==
  /\ wpc[1] = "run"
  /\ CallTestProxyWith(1, httpOutcome)

NextWorker ==
  \/ Enter
  \/ Spawn
  \/ CallTestProxyRecorded
  \/ \E n \in Workers \ {1} : CallTestProxy(n)
  \/ \E n \in Workers : AddDownloaded(n)
  \/ \E n \in Workers : AddTTFB(n)
  \/ \E n \in Workers : WgDone(n)
  \/ Join
  \/ BuildCandidates
  \/ TryCandidate
  \/ Exhausted
  \/ Return

SpecWorker == InitWorker /\ [][NextWorker]_vars

\* ------------------------------------ TestProxyConcurrent under fair scheduling
LiveTokenLists == {<<>>, <<"\t">>, <<"a", ",">>}

InitLive ==
  /\ downloadSizeConfig = 1
  /\ concurrent \in WorkerConcurrency
  /\ ipTokenList \in LiveTokenLists
  /\ ipTokenArray = ParseTokens(ipTokenList)
  /\ IdleMain
  /\ FreshCall
  /\ NoCallback
  /\ NoProbe
  /\ pc = "entry"

\* The Go scheduler runs every runnable goroutine, and every request through
\* the tunnel returns: http.Client.Timeout bounds client.Get, the body read
\* and client.Do.
Fairness ==
  /\ WF_vars(Enter)
  /\ WF_vars(Spawn)
  /\ \A n \in Workers : WF_vars(CallTestProxy(n))
  /\ \A n \in Workers : WF_vars(AddDownloaded(n))
  /\ \A n \in Workers : WF_vars(AddTTFB(n))
  /\ \A n \in Workers : WF_vars(WgDone(n))
  /\ WF_vars(Join)
  /\ WF_vars(BuildCandidates)
  /\ WF_vars(SkipCandidate)
  /\ WF_vars(TryCandidate)
  /\ WF_vars(Exhausted)
  /\ WF_vars(Return)

SpecLive == InitLive /\ [][Next]_vars /\ Fairness

\* ------------------- queryIPLocation with the answer of each candidate fixed
\* The answers a candidate URL can be fixed to: a transport error, a 404, a
\* 200 without an ip, and two usable ones.
FixedResponses ==
  { [err |-> TRUE, status |-> 0, body |-> NotJSON],
    [err |-> FALSE, status |-> 404,
     body |-> JSON(Obj(Str("1.1.1.1"), Str("US"), Str("United States")))],
    [err |-> FALSE, status |-> 200, body |-> JSON(Obj(Absent, Str("US"), Str("United States")))],
    [err |-> FALSE, status |-> 200,
     body |-> JSON(Obj(Str("1.1.1.1"), Str("US"), Str("United States")))],
    [err |-> FALSE, status |-> 200, body |-> JSON(Obj(Str("2.2.2.2"), Str(""), Str("DE")))] }

\* The candidate URLs of a token array.
CandidateURLs(tokens) == {TokenURL(tokens[k]) : k \in DOMAIN tokens} \cup {FallbackURL}

InitShuffle ==
  /\ downloadSizeConfig = 1
  /\ concurrent = 1
  /\ ipTokenList \in IpTokenLists
  /\ ipTokenArray = ParseTokens(ipTokenList)
  /\ IdleMain
  /\ FreshCall
  /\ NoCallback
  /\ httpOutcome = NoOutcome
  /\ ccIn = NoObject
  /\ ccOut = NoChecked
  /\ candidateResp \in [CandidateURLs(ipTokenArray) -> FixedResponses]
  /\ pc = "query"

\* The request is answered as fixed for its URL.
TryCandidateFixed ==
  /\ pc = "candidates"
  /\ idx <= Len(apiURLs)
  /\ TryCandidateWith(candidateResp[apiURLs[idx]])

NextShuffle ==
  \/ BuildCandidates
  \/ SkipCandidate
  \/ TryCandidateFixed
  \/ Exhausted

SpecShuffle == InitShuffle /\ [][NextShuffle]_vars

\* ==================================================================== claims
RECURSIVE SumOver(_, _)
SumOver(S, f) ==
  IF S = {} THEN 0
  ELSE LET n == CHOOSE n \in S : TRUE IN f[n] + SumOver(S \ {n}, f)

Joined == pc \in {"query", "candidates", "queried", "done"}
AllFailed == \A n \in Launched : written[n] = 0
Contributors == {n \in Launched : written[n] # 0}
EffectiveConcurrency == IF concurrent <= 0 THEN 1 ELSE concurrent
RequestedSizes == [n \in Workers |-> IF requested[n] = <<>> THEN 0 ELSE requested[n][1]]

\* C1 (as stated): when every worker failed, the Result's Bandwidth is -1
\* and its TTFB is -1.
C1_SentinelMinusOne ==
  (Joined /\ AllFailed) =>
    /\ result.Bandwidth.num = -result.Bandwidth.den
    /\ result.TTFB = -1

\* C1 (amended): when every worker failed, the Result's Bandwidth is 0 bytes
\* over the elapsed time of the run, i.e. 0, and its TTFB is 0; neither is -1.
C1_AllFailedGivesZero ==
  (Joined /\ AllFailed) =>
    /\ result.Bandwidth.num = 0
    /\ result.Bandwidth.den > 0
    /\ result.TTFB = 0

C1_Witness ==
  /\ pc = "done"
  /\ concurrentCount = 3
  /\ AllFailed
  /\ result.Name = name
  /\ result.TTFB = 0

\* C2: when every worker of the transfer test failed, queryIPLocation is never
\* invoked for the proxy and no geolocation request is issued.
C2_NoGeoWhenAllFailed ==
  AllFailed =>
    /\ geoCalls = 0
    /\ requests = <<>>
    /\ pc \in {"entry", "loop", "done"}

C2_Witness ==
  /\ pc = "done"
  /\ AllFailed
  /\ Len(ipTokenArray) >= 2
  /\ geoCalls = 0

\* C3: when at least one worker transferred bytes, the Result's bandwidth is
\* greater than 0 and queryIPLocation is invoked exactly once, after the
\* aggregation and before the Result is returned.
C3_GeoExactlyOnce ==
  /\ geoCalls \in {0, 1}
  /\ geoCalls = 1 => (Joined /\ pc # "query" /\ result.Name = name)
  /\ (Joined /\ Contributors # {}) =>
       /\ result.Bandwidth.num > 0
       /\ result.Bandwidth.den > 0
       /\ pc # "query" => geoCalls = 1
       /\ pc = "query" => geoCalls = 0

C3_Witness ==
  /\ pc = "done"
  /\ concurrentCount = 2
  /\ Cardinality(Contributors) = 1
  /\ geoCalls = 1

\* C4: the Result's TTFB is the sum of the TTFBs of the workers that
\* transferred bytes, divided (integer division) by the effective concurrency;
\* a worker that transferred nothing adds 0 but counts in the denominator.
C4_TTFBMeanOverConcurrency ==
  Joined =>
    result.TTFB = SumOver(Contributors, ttfb) \div EffectiveConcurrency

C4_Witness ==
  /\ pc = "done"
  /\ EffectiveConcurrency = 3
  /\ Cardinality(Contributors) = 2
  /\ \A n \in Contributors : ttfb[n] = 100
  /\ result.TTFB = 66

\* C5: for a download size >= 0, exactly the effective-concurrency number of
\* workers is launched, each requests size div concurrency bytes, and the sum
\* of the requested bytes is at most the size and short of it by less than the
\* concurrency.
C5_ChunkSizes ==
  (Joined /\ downloadSizeConfig >= 0) =>
    /\ Cardinality(Launched) = EffectiveConcurrency
    /\ \A n \in Launched :
         requested[n] = <<downloadSizeConfig \div EffectiveConcurrency>>
    /\ \A n \in Workers \ Launched : requested[n] = <<>>
    /\ SumOver(Launched, RequestedSizes) <= downloadSizeConfig
    /\ downloadSizeConfig - SumOver(Launched, RequestedSizes) < EffectiveConcurrency

C5_Witness ==
  /\ pc = "done"
  /\ downloadSizeConfig = 3
  /\ concurrent = 2
  /\ SumOver(Launched, RequestedSizes) = 2

\* C6: the Result's bandwidth is the total of the bytes transferred by all the
\* workers divided by the elapsed time of the whole run.
C6_AggregateBandwidth ==
  Joined =>
    /\ result.Bandwidth.num = SumOver(Launched, written)
    /\ result.Bandwidth.den = downloadTime
    /\ \A n \in Contributors : ttfb[n] <= downloadTime

C6_Witness ==
  /\ pc = "done"
  /\ concurrentCount = 3
  /\ \A n \in Launched : written[n] = 250000
  /\ downloadTime = MsPerSecond
  /\ result.Bandwidth.num * MsPerSecond = 750000 * result.Bandwidth.den

\* ---- the resolver
\* A response is usable when it came without a transport error, with status
\* 200 and a JSON object that holds a non-empty string ip.
Usable(r) ==
  /\ ~r.err
  /\ r.status = 200
  /\ r.body.json
  /\ r.body.obj.ip.kind = "string"
  /\ r.body.obj.ip.val # ""
\* The country a usable response stands for.
CountryOf(r) ==
  LET o == r.body.obj
  IN  IF o.country_code.kind = "string" /\ o.country_code.val # "" THEN o.country_code.val
      ELSE IF o.country.kind = "string" /\ o.country.val # "" THEN o.country.val
      ELSE ""
Count(seq, x) == Cardinality({k \in DOMAIN seq : seq[k] = x})
Resolving == pc \in {"candidates", "queried", "done"} /\ geoCalls = 1
Returned == pc \in {"queried", "done"} /\ geoCalls = 1
TokenCount == Len(ipTokenArray)
Buildable(url) == \A k \in DOMAIN url : url[k] # "\t"
\* The candidates the loop is through with.
Processed ==
  IF pc = "candidates" THEN idx - 1
  ELSE IF idx > Len(apiURLs) THEN Len(apiURLs) ELSE idx
RequestedAt(k) == \E j \in DOMAIN requests : requests[j].pos = k
CandidateListShape ==
  /\ Len(apiURLs) = TokenCount + 1
  /\ apiURLs[Len(apiURLs)] = <<"https://api.ip.sb/geoip">>
  /\ \A k \in 1 .. TokenCount :
       /\ apiURLs[k] = <<"http://ipinfo.io/json?token=">> \o SubSeq(apiURLs[k], 2, Len(apiURLs[k]))
       /\ Count(SubSeq(apiURLs, 1, TokenCount), apiURLs[k])
            = Count(ipTokenArray, SubSeq(apiURLs[k], 2, Len(apiURLs[k])))
  /\ \A k \in 1 .. TokenCount :
       Count(SubSeq(apiURLs, 1, TokenCount), <<"http://ipinfo.io/json?token=">> \o ipTokenArray[k])
         = Count(ipTokenArray, ipTokenArray[k])

\* C7 (as stated): the candidate list has len(tokens)+1 entries, the token
\* URLs in some permutation and the fallback last, and the fallback is never
\* requested before every token-bearing candidate has been requested.
C7_FallbackAfterAllRequested ==
  Resolving =>
    /\ CandidateListShape
    /\ \A j \in DOMAIN requests :
         requests[j].pos = Len(apiURLs) =>
           \A k \in 1 .. TokenCount : \E h \in 1 .. j - 1 : requests[h].pos = k

\* C7 (amended): the same list shape, and the fallback is never requested
\* before every token-bearing candidate has been passed over: requested and
\* rejected, or skipped because no request could be built for its URL.
C7_FallbackLast ==
  Resolving =>
    /\ CandidateListShape
    /\ \A j \in DOMAIN requests :
         /\ requests[j].url = apiURLs[requests[j].pos]
         /\ requests[j].pos = Len(apiURLs) =>
              /\ j = Len(requests)
              /\ \A k \in 1 .. TokenCount :
                   \/ \E h \in 1 .. j - 1 : requests[h].pos = k
                   \/ ~Buildable(apiURLs[k])

C7_Witness ==
  /\ pc = "done"
  /\ TokenCount = 2
  /\ Len(requests) = 2
  /\ requests[1].pos = 1
  /\ requests[2].pos = 3
  /\ requests[2].url = FallbackURL

\* C8 (as stated): when the k-th candidate is the first accepted one, exactly
\* k requests have been issued.
C8_ExactlyKRequests ==
  (Returned /\ geoRet.err = "nil") => Len(requests) = idx

\* C8 (amended): candidates are requested in list order, each at most once,
\* a candidate whose request cannot be built being skipped without a request;
\* the loop stops at the first usable response and returns its ip and country,
\* having issued one request per buildable candidate up to that one.
C8_InOrderStopAtFirst ==
  Resolving =>
    /\ \A j \in DOMAIN requests :
         /\ requests[j].pos \in 1 .. Len(apiURLs)
         /\ requests[j].url = apiURLs[requests[j].pos]
         /\ \A h \in DOMAIN requests : h < j => requests[h].pos < requests[j].pos
    /\ \A k \in 1 .. Len(apiURLs) :
         RequestedAt(k) <=> (k <= Processed /\ Buildable(apiURLs[k]))
    /\ (pc = "candidates" /\ requests # <<>>) => ~Usable(lastResp)
    /\ (Returned /\ geoRet.err = "nil") =>
         /\ requests # <<>>
         /\ requests[Len(requests)].pos = idx
         /\ Usable(lastResp)
         /\ geoRet.ip = lastResp.body.obj.ip.val
         /\ geoRet.country = CountryOf(lastResp)

C8_Witness ==
  /\ pc = "queried"
  /\ geoRet.err = "nil"
  /\ idx = 3
  /\ Len(requests) = 3
  /\ geoRet.ip = "2.2.2.2"
  /\ geoRet.country = "DE"

\* C9: when every candidate, the fallback included, was requested and none
\* gave a usable response, queryIPLocation returns an empty country, an empty
\* ip and the error, having requested every candidate exactly once.
C9_ExhaustionIsAnError ==
  (Returned /\ (\A k \in DOMAIN apiURLs : Buildable(apiURLs[k])) /\ ~Usable(lastResp)) =>
    /\ geoRet = [country |-> "", ip |-> "", err |-> AllFailedError]
    /\ Len(requests) = Len(apiURLs)
    /\ \A k \in DOMAIN apiURLs : requests[k].pos = k /\ requests[k].url = apiURLs[k]

C9_Witness ==
  /\ pc = "queried"
  /\ Len(apiURLs) = 3
  /\ Len(requests) = 3
  /\ ~Usable(lastResp)
  /\ geoRet.err = AllFailedError

\* C10: queryIPLocation returns a nil error only from a candidate with status
\* 200, a body that decoded as a JSON object and a non-empty string ip, and
\* then the returned ip is not empty; any other outcome goes on with the next
\* candidate, so that a return without a usable response is the exhaustion
\* error.
C10_SuccessOnlyFromUsable ==
  Returned =>
    /\ geoRet.err = "nil" =>
         /\ ~lastResp.err
         /\ lastResp.status = 200
         /\ lastResp.body.json
         /\ lastResp.body.obj.ip.kind = "string"
         /\ geoRet.ip = lastResp.body.obj.ip.val
         /\ geoRet.ip # ""
    /\ geoRet.err # "nil" =>
         /\ geoRet.err = AllFailedError
         /\ idx = Len(apiURLs) + 1
         /\ requests # <<>> => ~Usable(lastResp)

C10_Witness ==
  /\ pc = "queried"
  /\ geoRet.err = "nil"
  /\ idx = 2
  /\ Len(requests) = 2
  /\ lastResp.status = 200
  /\ geoRet.ip = "3.3.3.3"
  /\ geoRet.country = ""

\* ---- checkCountry
IsText(f) == f.kind = "string" /\ f.val # ""

\* C11: for an object with a non-empty string ip, checkCountry returns
\* (country_code, ip, true) when country_code is a non-empty string, else
\* (country, ip, true) when country is one, else ("", ip, true); for an object
\* whose ip is absent, empty or not a string it returns ("", "", false).
C11_CheckCountryResult ==
  pc = "checked" =>
    /\ IsText(ccIn.ip) =>
         /\ ccOut.ok
         /\ ccOut.ip = ccIn.ip.val
         /\ IsText(ccIn.country_code) => ccOut.country = ccIn.country_code.val
         /\ (~IsText(ccIn.country_code) /\ IsText(ccIn.country)) =>
              ccOut.country = ccIn.country.val
         /\ (~IsText(ccIn.country_code) /\ ~IsText(ccIn.country)) =>
              ccOut.country = ""
    /\ ~IsText(ccIn.ip) => ccOut = [country |-> "", ip |-> "", ok |-> FALSE]

C11_Witness ==
  /\ pc = "checked"
  /\ ccIn = Obj(Str("2.2.2.2"), Str("US"), Str("Germany"))
  /\ ccOut = [country |-> "US", ip |-> "2.2.2.2", ok |-> TRUE]

\* ---- the empty iptokens option
\* C12: when the iptokens option is the empty string, the candidate list of
\* the resolver holds exactly one entry, the fixed fallback, and no
\* token-bearing URL is ever requested.
C12_EmptyTokensOnlyFallback ==
  (ipTokenList = <<>> /\ Resolving) =>
    /\ apiURLs = <<FallbackURL>>
    /\ \A j \in DOMAIN requests : requests[j].url = FallbackURL

\* ---- the loop over the filtered proxies
\* The proxies of a testable type among the first k, in order.
RECURSIVE TestedUpTo(_)
TestedUpTo(k) ==
  IF k = 0 THEN <<>>
  ELSE IF proxies[k] \in TestableTypes THEN Append(TestedUpTo(k - 1), k)
  ELSE TestedUpTo(k - 1)
\* The proxies whose pass through the loop body is over.
LoopDone == IF pc \in {"range", "reported", "fatal"} THEN name ELSE name - 1
ResultNames == [k \in 1 .. Len(results) |-> results[k].Name]

\* C13 as stated: every proxy of the filtered set yields exactly one Result,
\* whatever its type; none is skipped and none aborts the run.
C13_OneResultPerProxy ==
  /\ pc # "fatal"
  /\ pc \in {"range", "reported"} => Len(results) = name

\* C13: every proxy of a testable type yields exactly one Result, appended as
\* soon as its TestProxyConcurrent returns and before the next proxy is looked
\* at; a proxy of a group type (Direct, Reject, Relay, Selector, Fallback,
\* URLTest, LoadBalance) is skipped without a Result; the run aborts only at a
\* proxy of a type neither case lists.
C13_OneResultPerTestableProxy ==
  /\ pc # "reported" => ResultNames = TestedUpTo(LoopDone)
  /\ pc = "reported" =>
       /\ Len(results) = Len(TestedUpTo(Len(proxies)))
       /\ \A k \in DOMAIN proxies :
            proxies[k] \in TestableTypes => Count(ResultNames, k) = 1
  /\ pc = "fatal" => proxies[name] \notin TestableTypes \cup SkippedTypes
  /\ pc \notin {"range", "reported", "fatal"} => proxies[name] \in TestableTypes

C13_Witness ==
  /\ pc = "reported"
  /\ proxies = <<"Selector", "Vmess">>
  /\ Len(results) = 1
  /\ results[1].Name = 2
  /\ results[1].Bandwidth.num = 0

\* ---- a failed geolocation
GeoFailed == geoCalls = 1 /\ geoRet.err = AllFailedError

C14_LocationNeverEmpty ==
  \A k \in DOMAIN results : results[k].CountryCode # "" /\ results[k].IP # ""

\* ---- one worker's transfer
\* The first worker's call of TestProxy has returned.
FirstReturned == wpc[1] \in {"ret", "added", "summed", "done"}
\* The response passed the error and the status check: the body was read.
BodyRead(o) == ~o.err /\ o.status <= StatusOK + StatusSlack

\* C16: a worker whose body read ends in an error after n > 0 bytes still
\* reports n bytes and its TTFB; the n bytes are added to the byte total and
\* count toward bandwidth as the bytes of a completed chunk do.
C16_PartialBytesCount ==
  (BodyRead(httpOutcome) /\ httpOutcome.copyErr /\ httpOutcome.written > 0) =>
    /\ FirstReturned =>
         /\ written[1] = httpOutcome.written
         /\ ttfb[1] = httpOutcome.ttfb
    /\ wpc[1] \in {"added", "summed", "done"} => downloaded >= httpOutcome.written
    /\ Joined =>
         /\ downloaded = SumOver(Launched \ {1}, written) + httpOutcome.written
         /\ totalTTFB = SumOver(Contributors \ {1}, ttfb) + httpOutcome.ttfb
         /\ result.Bandwidth = Bandwidth(downloaded, downloadTime)

C16_Witness ==
  /\ pc = "done"
  /\ concurrentCount = 2
  /\ httpOutcome.copyErr
  /\ httpOutcome.written = 1
  /\ written[2] = 250000
  /\ result.Bandwidth.num = 250001

\* The recorded outcome is one of the three failures.
FirstFailed ==
  \/ httpOutcome.err
  \/ httpOutcome.status > StatusOK + StatusSlack
  \/ httpOutcome.written = 0

\* C17: a worker whose request ends in an error, whose status is more than
\* 100 above 200, or that reads zero bytes reports 0 bytes written and leaves
\* both accumulators unchanged; any other status, every status below 200
\* included, passes the status check.
C17_FailedChunkContributesNothing ==
  /\ [](/\ (FirstFailed /\ FirstReturned) =>
              (written[1] = 0 /\ wpc[1] \in {"ret", "done"})
        /\ (~FirstFailed /\ FirstReturned) =>
              (written[1] = httpOutcome.written /\ ttfb[1] = httpOutcome.ttfb))
  /\ [][(FirstFailed /\ wpc'[1] # wpc[1]) =>
           (downloaded' = downloaded /\ totalTTFB' = totalTTFB)]_vars

C17_Witness ==
  /\ pc = "done"
  /\ concurrentCount = 2
  /\ httpOutcome.status = 301
  /\ httpOutcome.written = 250000
  /\ written[1] = 0
  /\ wpc[1] = "done"
  /\ downloaded = 1
  /\ totalTTFB = 100

\* ---- the shared accumulators and the join
\* The workers whose add to downloaded / to totalTTFB has taken place.
AddedBytes ==
  {n \in Launched : wpc[n] \in {"added", "summed"} \/ (wpc[n] = "done" /\ written[n] # 0)}
AddedTTFB ==
  {n \in Launched : wpc[n] = "summed" \/ (wpc[n] = "done" /\ written[n] # 0)}

\* C18: in every interleaving the byte accumulator is the sum of the bytes of
\* the workers that have added theirs and the TTFB accumulator the sum of the
\* TTFBs of those that have added theirs; after the join these are all the
\* workers' bytes and the TTFBs of exactly the workers with non-zero bytes.
\* No update is lost and no worker adds a TTFB without having added bytes.
C18_AccumulatorsAreSums ==
  /\ downloaded = SumOver(AddedBytes, written)
  /\ totalTTFB = SumOver(AddedTTFB, ttfb)
  /\ AddedTTFB \subseteq AddedBytes
  /\ \A n \in AddedBytes : written[n] # 0
  /\ Joined =>
       /\ AddedBytes = Contributors
       /\ AddedTTFB = Contributors
       /\ downloaded = SumOver(Launched, written)
       /\ totalTTFB = SumOver(Contributors, ttfb)

C18_Witness ==
  /\ pc = "done"
  /\ concurrentCount = 3
  /\ written = <<1, 0, 250000>>
  /\ ttfb = <<1, FailedChunk.TTFB, 100>>
  /\ downloaded = 250001
  /\ totalTTFB = 101

\* C19: the accumulators are read, the end-of-run time taken, the Result
\* built and geolocation started only after every launched worker has done
\* its adds and signalled completion.
C19_ResultAfterAllWorkers ==
  (Joined \/ result # NoResult \/ downloadTime # 0 \/ geoCalls > 0) =>
    /\ wg = 0
    /\ Launched = 1 .. concurrentCount
    /\ \A n \in Launched : wpc[n] = "done"
    /\ result.Bandwidth.num = downloaded

C19_Witness ==
  /\ pc = "candidates"
  /\ concurrentCount = 3
  /\ geoCalls = 1
  /\ wg = 0
  /\ written = <<250000, 0, 1>>
  /\ \A n \in Workers : wpc[n] = "done"

\* ---- termination
\* C20: with every request returning and fair scheduling, TestProxyConcurrent
\* eventually returns a Result; every launched worker signals completion
\* exactly once on every exit path of TestProxy, so the counter of the wait
\* group is the number of workers still running and reaches 0; the resolver
\* loop issues at most len(tokens)+1 requests.
C20_EventuallyReturns ==
  /\ <>(pc = "done" /\ result.Name = name)
  /\ [](wg = Cardinality({n \in Launched : wpc[n] # "done"}))
  /\ [](Len(requests) <= Len(ipTokenArray) + 1)
  /\ [][\A n \in Workers : wpc[n] = "done" => wpc'[n] = "done"]_vars

C20_Witness ==
  /\ pc = "done"
  /\ concurrentCount = 2
  /\ wg = 0
  /\ written[1] = 0
  /\ written[2] = 1
  /\ Len(ipTokenArray) = 3
  /\ Len(requests) = 4
  /\ geoRet.err = AllFailedError

\* ---- response bodies
\* C21: every response obtained by a worker's TestProxy or by a candidate
\* request of queryIPLocation has its body closed by the time the function
\* that obtained it returns, on every exit path; none is open once the
\* proxy's test is over.
C21_BodiesClosedAtReturn ==
  /\ \A n \in Workers :
       wpc[n] \in {"ret", "added", "summed", "done"} => wbody[n] # "open"
  /\ geoOpen >= 0
  /\ pc = "candidates" => geoOpen = geoDeferred
  /\ pc \in {"queried", "done"} => (geoOpen = 0 /\ geoDeferred = 0)

C21_Witness ==
  /\ pc = "queried"
  /\ wbody[1] = "closed"
  /\ Len(requests) = 2
  /\ ~lastResp.err
  /\ lastResp.status = 404
  /\ geoRet.err = AllFailedError
  /\ geoOpen = 0

\* ---- the shuffle
\* Some candidate can be requested and is answered by a usable response.
Resolvable ==
  \E u \in DOMAIN candidateResp : Buildable(u) /\ Usable(candidateResp[u])

\* C22: for a fixed token list and fixed answers per candidate, whether
\* queryIPLocation succeeds or returns the aggregate error does not depend on
\* the permutation: it succeeds exactly when some candidate is answered by a
\* usable response, and then with the values of such a candidate.
C22_OutcomeIndependentOfShuffle ==
  pc = "queried" =>
    /\ geoRet.err = "nil" <=> Resolvable
    /\ geoRet.err # "nil" <=> geoRet.err = AllFailedError
    /\ geoRet.err = "nil" =>
         \E u \in DOMAIN candidateResp :
           /\ Buildable(u)
           /\ Usable(candidateResp[u])
           /\ geoRet.ip = candidateResp[u].body.obj.ip.val
           /\ geoRet.country = CountryOf(candidateResp[u])

C22_Witness ==
  /\ pc = "queried"
  /\ geoRet.err = "nil"
  /\ Len(ipTokenArray) = 3
  /\ apiURLs[1] # TokenURL(ipTokenArray[1])
  /\ Len(requests) = 2
  /\ ~Usable(candidateResp[apiURLs[1]])
  /\ geoRet.ip = "2.2.2.2"

====
